---- MODULE Spec2Model ----
(***************************************************************************)
(* Model of hsm/runtime/async_support.py: the AsyncStateMachine            *)
(* (start / process_event / stop under the machine's _AsyncLock), the      *)
(* AsyncEventQueue and the _AsyncEventProcessingLoop; and of the Timer of  *)
(* hsm/runtime/timers as hsm/tests/unit/test_timers.py exercises it.       *)
(*                                                                         *)
(* Every statement between lock acquisition and release is a step of its   *)
(* own, so the lock (and nothing else) is what keeps the steps of two      *)
(* calls apart.  The cooperative scheduler only switches tasks at an       *)
(* await, so its behaviours are a subset of the ones explored here.        *)
(***************************************************************************)
EXTENDS Integers, Sequences, FiniteSets, TLC

\* ------------------------------------------------------------------ bounds
NumTasks == 2          \* concurrent callers of start/stop/process_event
MaxTransitions == 2    \* add_transition calls
MaxPriority == 1       \* priorities are 0..MaxPriority
MaxEnqueued == 4       \* enqueue calls on the AsyncEventQueue
MaxDuration == 1       \* timer durations are -1..MaxDuration
MaxLate == 1           \* how long after its deadline an expiry can still be waiting to run
MaxRounds == 2         \* rounds of schedule_timeout and cancel_timeout of each worker

Tasks == 1..NumTasks
States == {"A", "B"}
InitialState == "A"
Events == {"e1", "e2"}
Priorities == 0..MaxPriority

\* Guards of a transition, by what Transition.evaluate_guards does with the
\* event: "noop" is NoOpGuard (always True), "bool" is a guard of the
\* AbstractGuard interface that returns True for e1 and False for e2, "cond"
\* is a ConditionGuard whose condition holds for e1 and which raises
\* GuardEvaluationError for e2.
GuardKinds == {"noop", "bool", "cond"}

\* the transitions add_transition is called with
TransitionPool ==
    {t \in [source : States, target : States, priority : Priorities, guard : GuardKinds] :
        t.source # t.target}

\* the transitions registered while several callers are at work
ConcurrentPool == {t \in TransitionPool : t.priority = 0 /\ t.guard # "bool"}

\* A caller that is in no call.
NoTask == [pc |-> "idle", op |-> "none", event |-> "none", pre |-> "none",
           valid_transitions |-> <<>>, chosen_transition |-> 0,
           exc |-> "none", handled |-> FALSE, hook_exc |-> FALSE, log |-> <<>>]

VARIABLES
    current_state,   \* _context current state cursor
    table,           \* _context transition table, in registration order
    started,         \* AsyncStateMachine._started
    stopped,         \* AsyncStateMachine._stopped
    locked,          \* asyncio.Lock._locked of AsyncStateMachine._lock
    waiters,         \* asyncio.Lock._waiters, FIFO
    task,            \* per caller: position, locals and what it has observed
    had_error,       \* some process_event call has reached the error hook
    pe_raised,       \* the first exception that a process_event call raised to its caller
    queue,           \* AsyncEventQueue._queue
    priority_mode,   \* AsyncEventQueue._priority_mode
    getter,          \* position of the dequeue caller
    enqueued,        \* events handed to enqueue, in call order
    dequeued,        \* events returned by dequeue, in return order
    running,         \* _AsyncEventProcessingLoop._running
    loop_pc,         \* position of the start_loop coroutine
    consumed,        \* how many dequeued events start_loop has taken
    stop_pc,         \* position of the stop_loop coroutine
    stop_seen,       \* stop_loop was called while start_loop was running
    timer_state,     \* Timer state: IDLE, RUNNING, CANCELLED, COMPLETED, ERROR
    timer_event,     \* the armed event, if any
    duration,        \* the armed duration, if any
    start_time,      \* set while a deadline is armed
    elapsed,         \* time passed since start_time
    pending,         \* deferred executions armed and not yet due
    handlers,        \* deferred executions that came due and wait for the timer's section,
                     \* each with whether its deadline has been cleared since
    last,            \* the most recent call on the timer and how it ended
    invoked,         \* callback invocations since the last successful schedule_timeout
    cb_args,         \* arguments of the callback invocation, and whether it raised
    shut,            \* "never", or what happened since the last shutdown
    guard,           \* the guard object check is called on
    check_args,      \* the event and the state data check is called with
    check_result,    \* how the check call ended
    registry,        \* TimerManager: the registered timers by id
    mgr_last,        \* the most recent call on the TimerManager and how it ended
    snapshot,        \* what the most recent get_all_timers call returned
    removing,        \* the timer a remove_timer call has found removable, until it removes it
    worker,          \* per worker of the concurrency tests: position and rounds done
    threaded         \* the workers are threads (they are coroutines otherwise)

queue_vars == <<queue, priority_mode, getter, enqueued, dequeued>>
loop_vars == <<running, loop_pc, consumed, stop_pc, stop_seen>>
timer_vars == <<timer_state, timer_event, duration, start_time, elapsed, pending, handlers,
                last, invoked, cb_args, shut>>
machine_vars == <<current_state, table, started, stopped, locked, waiters, task, had_error,
                  pe_raised>>
guard_vars == <<guard, check_args, check_result>>
manager_vars == <<registry, mgr_last, snapshot, removing>>
worker_vars == <<worker, threaded>>
ext_vars == <<guard_vars, manager_vars, worker_vars>>
vars == <<current_state, table, started, stopped, locked, waiters, task, had_error, pe_raised,
          queue, priority_mode, getter, enqueued, dequeued,
          running, loop_pc, consumed, stop_pc, stop_seen,
          timer_state, timer_event, duration, start_time, elapsed, pending, handlers,
          last, invoked, cb_args, shut,
          guard, check_args, check_result, registry, mgr_last, snapshot, removing,
          worker, threaded>>

\* p is between lock acquisition and release
InSection(p) == task[p].pc \notin {"idle", "wait"}

\* ------------------------------------------------------------ _AsyncLock
\* an acquire that does not look at the lock
CanAcquireAlways == TRUE

\* asyncio.Lock.acquire returns at once only if the lock is free and nobody
\* is queued for it.
CanAcquire == ~locked /\ waiters = <<>>

\* await self._lock.acquire() by task p whose record becomes r once the lock
\* is held (pc = body) or once it is queued (pc = "wait").
AsyncLock_acquire(p, r, body) ==
    IF CanAcquire
    THEN /\ locked' = TRUE
         /\ waiters' = waiters
         /\ task' = [task EXCEPT ![p] = [r EXCEPT !.pc = body]]
    ELSE /\ locked' = locked
         /\ waiters' = Append(waiters, p)
         /\ task' = [task EXCEPT ![p] = [r EXCEPT !.pc = "wait"]]

\* self._lock.release() in a finally block: the call ends, raising the
\* exception that is still pending, if any.
AsyncLock_release(p) ==
    /\ locked' = FALSE
    /\ waiters' = waiters
    /\ task' = [task EXCEPT ![p] = NoTask]
    /\ pe_raised' = IF pe_raised # "none" \/ task[p].op # "process_event" THEN pe_raised
                    ELSE IF task[p].exc # "none" /\ ~task[p].handled THEN task[p].exc
                    ELSE IF task[p].hook_exc THEN "on_error_hook"
                    ELSE "none"

BodyOf(op) == CASE op = "start" -> "start_body"
                [] op = "stop" -> "stop_body"
                [] OTHER -> "pe_select"

\* The first queued task resumes from its await and takes the released lock.
LockWake(p) ==
    /\ task[p].pc = "wait"
    /\ ~locked
    /\ waiters # <<>> /\ Head(waiters) = p
    /\ locked' = TRUE
    /\ waiters' = Tail(waiters)
    /\ task' = [task EXCEPT ![p].pc = BodyOf(task[p].op)]
    /\ UNCHANGED <<current_state, table, started, stopped, had_error, pe_raised>>
    /\ UNCHANGED <<queue_vars, loop_vars, timer_vars, ext_vars>>

Callable(p) == task[p].pc = "idle"


Fresh(op, ev) == [NoTask EXCEPT !.op = op, !.event = ev]


\* ------------------------------------------------------------------ guards
\* What checking a guard of the given kind against the event does.
check(kind, ev) ==
    CASE kind = "noop" -> "pass"
      [] kind = "bool" -> IF ev = "e1" THEN "pass" ELSE "fail"
      [] OTHER -> IF ev = "e1" THEN "pass" ELSE "raise"

\* Transition.evaluate_guards(event): True, False, or the guard's exception.
evaluate_guards(t, ev) == check(t.guard, ev)

\* -------------------------------------------------------------- selection
RECURSIVE Insert(_, _, _)
\* s with index i put behind every element whose priority is not lower
Insert(s, i, ts) ==
    IF s = <<>> THEN <<i>>
    ELSE IF ts[Head(s)].priority >= ts[i].priority
         THEN <<Head(s)>> \o Insert(Tail(s), i, ts)
         ELSE <<i>> \o s

RECURSIVE InsertBeforeEqual(_, _, _)
\* as Insert, but in front of the elements of equal priority
InsertBeforeEqual(s, i, ts) ==
    IF s = <<>> THEN <<i>>
    ELSE IF ts[Head(s)].priority > ts[i].priority
         THEN <<Head(s)>> \o InsertBeforeEqual(Tail(s), i, ts)
         ELSE <<i>> \o s

RECURSIVE SortedUnstable(_, _)
\* a descending sort that reverses the order of equal priorities
SortedUnstable(s, ts) ==
    IF s = <<>> THEN <<>>
    ELSE InsertBeforeEqual(SortedUnstable(SubSeq(s, 1, Len(s) - 1), ts), s[Len(s)], ts)

RECURSIVE SortedAscending(_, _)
\* the sort without reverse=True
SortedAscending(s, ts) ==
    IF s = <<>> THEN <<>>
    ELSE LET rest == SortedAscending(Tail(s), ts)
             lower == SelectSeq(rest, LAMBDA j : ts[j].priority < ts[Head(s)].priority)
             other == SelectSeq(rest, LAMBDA j : ts[j].priority >= ts[Head(s)].priority)
         IN  lower \o <<Head(s)>> \o other

RECURSIVE Sorted(_, _)
\* sorted(valid_transitions, key=priority, reverse=True): descending and
\* stable, equal priorities keep their order in s
Sorted(s, ts) ==
    IF s = <<>> THEN <<>>
    ELSE Insert(Sorted(SubSeq(s, 1, Len(s) - 1), ts), s[Len(s)], ts)

RECURSIVE IndicesAnySource(_, _, _, _)
\* the filter without t.source == self.current_state
IndicesAnySource(ts, n, cur, ev) ==
    IF n > Len(ts) THEN <<>>
    ELSE (IF evaluate_guards(ts[n], ev) = "pass"
          THEN <<n>> ELSE <<>>) \o IndicesAnySource(ts, n + 1, cur, ev)

RECURSIVE Indices(_, _, _, _)
\* [i for i in n..len(ts) if ts[i].source == cur and evaluate_guards == True]
Indices(ts, n, cur, ev) ==
    IF n > Len(ts) THEN <<>>
    ELSE (IF ts[n].source = cur /\ evaluate_guards(ts[n], ev) = "pass"
          THEN <<n>> ELSE <<>>) \o Indices(ts, n + 1, cur, ev)

\* the comprehension stops at the first transition from cur whose guards raise
GuardRaises(ts, cur, ev) ==
    \E i \in 1..Len(ts) : ts[i].source = cur /\ evaluate_guards(ts[i], ev) = "raise"

\* --------------------------------------------------- AsyncStateMachine API
\* add_transition: the context appends to its table.  It is a plain function,
\* so it runs between two awaits, and the locked sections contain no await.
AddTransition(t) ==
    /\ Len(table) < MaxTransitions
    /\ \A p \in Tasks : ~InSection(p)
    /\ table' = Append(table, t)
    /\ UNCHANGED <<current_state, started, stopped, locked, waiters, task, had_error, pe_raised>>
    /\ UNCHANGED <<queue_vars, loop_vars, timer_vars, ext_vars>>

\* start(), up to the lock
StartCall(p) ==
    /\ Callable(p)
    /\ IF started
       THEN UNCHANGED <<task, locked, waiters>>
       ELSE AsyncLock_acquire(p, Fresh("start", "none"), "start_body")
    /\ UNCHANGED <<current_state, table, started, stopped, had_error, pe_raised>>
    /\ UNCHANGED <<queue_vars, loop_vars, timer_vars, ext_vars>>

\* start(), the try block: validator, context start, on-enter hook, _started
StartBody(p) ==
    /\ task[p].pc = "start_body"
    /\ \E outcome \in {"ok", "validate", "hook"} :
        /\ started' = (started \/ outcome = "ok")
        /\ task' = [task EXCEPT
                ![p].pc = "start_finally",
                ![p].exc = IF outcome = "ok" THEN "none" ELSE outcome,
                ![p].log = IF outcome = "validate" THEN <<>>
                           ELSE <<<<"on_enter_hook", current_state>>>>]
    /\ UNCHANGED <<current_state, table, stopped, locked, waiters, had_error, pe_raised>>
    /\ UNCHANGED <<queue_vars, loop_vars, timer_vars, ext_vars>>

StartFinally(p) ==
    /\ task[p].pc = "start_finally"
    /\ AsyncLock_release(p)
    /\ UNCHANGED <<current_state, table, started, stopped, had_error>>
    /\ UNCHANGED <<queue_vars, loop_vars, timer_vars, ext_vars>>

\* stop(), up to the lock
StopCall(p) ==
    /\ Callable(p)
    /\ IF stopped
       THEN UNCHANGED <<task, locked, waiters>>
       ELSE AsyncLock_acquire(p, Fresh("stop", "none"), "stop_body")
    /\ UNCHANGED <<current_state, table, started, stopped, had_error, pe_raised>>
    /\ UNCHANGED <<queue_vars, loop_vars, timer_vars, ext_vars>>

\* stop(), the try block: on-exit hook, context stop, _stopped
StopBody(p) ==
    /\ task[p].pc = "stop_body"
    /\ \E raises \in BOOLEAN :
        /\ stopped' = (stopped \/ ~raises)
        /\ task' = [task EXCEPT
                ![p].pc = "stop_finally",
                ![p].exc = IF raises THEN "hook" ELSE "none",
                ![p].log = <<<<"on_exit_hook", current_state>>>>]
    /\ UNCHANGED <<current_state, table, started, locked, waiters, had_error, pe_raised>>
    /\ UNCHANGED <<queue_vars, loop_vars, timer_vars, ext_vars>>

StopFinally(p) ==
    /\ task[p].pc = "stop_finally"
    /\ AsyncLock_release(p)
    /\ UNCHANGED <<current_state, table, started, stopped, had_error>>
    /\ UNCHANGED <<queue_vars, loop_vars, timer_vars, ext_vars>>

\* process_event that goes on without taking the lock
PECallNoLock(p, ev) ==
    /\ Callable(p)
    /\ IF ~started \/ stopped
       THEN UNCHANGED task
       ELSE task' = [task EXCEPT ![p] = [Fresh("process_event", ev) EXCEPT !.pc = "pe_select"]]
    /\ UNCHANGED <<current_state, table, started, stopped, locked, waiters, had_error, pe_raised>>
    /\ UNCHANGED <<queue_vars, loop_vars, timer_vars, ext_vars>>

\* process_event(event), up to the lock
PECall(p, ev) ==
    /\ Callable(p)
    /\ IF ~started \/ stopped
       THEN UNCHANGED <<task, locked, waiters>>
       ELSE AsyncLock_acquire(p, Fresh("process_event", ev), "pe_select")
    /\ UNCHANGED <<current_state, table, started, stopped, had_error, pe_raised>>
    /\ UNCHANGED <<queue_vars, loop_vars, timer_vars, ext_vars>>

\* the transitions from the current state whose guards pass, and the one of
\* highest priority among them
PESelect(p) ==
    /\ task[p].pc = "pe_select"
    /\ LET ev == task[p].event
           valid == Indices(table, 1, current_state, ev)
           r == [task[p] EXCEPT !.pre = current_state]
       IN  task' = [task EXCEPT ![p] =
                IF GuardRaises(table, current_state, ev)
                THEN [r EXCEPT !.pc = "pe_except", !.exc = "guards"]
                ELSE IF valid = <<>>
                THEN [r EXCEPT !.pc = "pe_finally"]
                ELSE [r EXCEPT !.pc = "pe_hook_exit",
                               !.valid_transitions = valid,
                               !.chosen_transition = Sorted(valid, table)[1]]]
    /\ UNCHANGED <<current_state, table, started, stopped, locked, waiters, had_error, pe_raised>>
    /\ UNCHANGED <<queue_vars, loop_vars, timer_vars, ext_vars>>

\* one statement of the try block: it is logged, and either raises (control
\* goes to the except clause) or is followed by the next statement
Statement(p, name, arg, next) ==
    \E raises \in BOOLEAN :
        task' = [task EXCEPT
            ![p].log = Append(task[p].log, <<name, arg>>),
            ![p].exc = IF raises THEN name ELSE "none",
            ![p].pc = IF raises THEN "pe_except" ELSE next]

\* self._hooks.execute_on_exit(self.current_state)
PEHookExit(p) ==
    /\ task[p].pc = "pe_hook_exit"
    /\ Statement(p, "on_exit_hook", current_state, "pe_exit")
    /\ UNCHANGED <<current_state, table, started, stopped, locked, waiters, had_error, pe_raised>>
    /\ UNCHANGED <<queue_vars, loop_vars, timer_vars, ext_vars>>

\* self.current_state.on_exit()
PEExit(p) ==
    /\ task[p].pc = "pe_exit"
    /\ Statement(p, "on_exit", current_state, "pe_actions")
    /\ UNCHANGED <<current_state, table, started, stopped, locked, waiters, had_error, pe_raised>>
    /\ UNCHANGED <<queue_vars, loop_vars, timer_vars, ext_vars>>

\* the cursor moved before the actions have run
PEActionsAfterCursor(p) ==
    /\ task[p].pc = "pe_actions"
    /\ current_state' = table[task[p].chosen_transition].target
    /\ Statement(p, "actions", task[p].event, "pe_set_state")
    /\ UNCHANGED <<table, started, stopped, locked, waiters, had_error, pe_raised>>
    /\ UNCHANGED <<queue_vars, loop_vars, timer_vars, ext_vars>>

\* chosen_transition.execute_actions(event)
PEActions(p) ==
    /\ task[p].pc = "pe_actions"
    /\ Statement(p, "actions", task[p].event, "pe_set_state")
    /\ UNCHANGED <<current_state, table, started, stopped, locked, waiters, had_error, pe_raised>>
    /\ UNCHANGED <<queue_vars, loop_vars, timer_vars, ext_vars>>

\* self._context.set_current_state(chosen_transition.target)
PESetState(p) ==
    /\ task[p].pc = "pe_set_state"
    /\ current_state' = table[task[p].chosen_transition].target
    /\ task' = [task EXCEPT ![p].pc = "pe_enter",
                            ![p].log = Append(task[p].log, <<"set_current_state", current_state'>>)]
    /\ UNCHANGED <<table, started, stopped, locked, waiters, had_error, pe_raised>>
    /\ UNCHANGED <<queue_vars, loop_vars, timer_vars, ext_vars>>

\* on_enter without the on-enter hook dispatch after it
PEEnterNoHook(p) ==
    /\ task[p].pc = "pe_enter"
    /\ Statement(p, "on_enter", current_state, "pe_finally")
    /\ UNCHANGED <<current_state, table, started, stopped, locked, waiters, had_error, pe_raised>>
    /\ UNCHANGED <<queue_vars, loop_vars, timer_vars, ext_vars>>

\* self.current_state.on_enter()
PEEnter(p) ==
    /\ task[p].pc = "pe_enter"
    /\ Statement(p, "on_enter", current_state, "pe_hook_enter")
    /\ UNCHANGED <<current_state, table, started, stopped, locked, waiters, had_error, pe_raised>>
    /\ UNCHANGED <<queue_vars, loop_vars, timer_vars, ext_vars>>

\* self._hooks.execute_on_enter(self.current_state)
PEHookEnter(p) ==
    /\ task[p].pc = "pe_hook_enter"
    /\ Statement(p, "on_enter_hook", current_state, "pe_finally")
    /\ UNCHANGED <<current_state, table, started, stopped, locked, waiters, had_error, pe_raised>>
    /\ UNCHANGED <<queue_vars, loop_vars, timer_vars, ext_vars>>

\* an except clause that raises the exception again
PEExceptReraise(p) ==
    /\ task[p].pc = "pe_except"
    /\ task' = [task EXCEPT ![p].pc = "pe_finally",
                            ![p].log = Append(task[p].log, <<"on_error_hook", task[p].exc>>)]
    /\ had_error' = TRUE
    /\ UNCHANGED <<current_state, table, started, stopped, locked, waiters, pe_raised>>
    /\ UNCHANGED <<queue_vars, loop_vars, timer_vars, ext_vars>>

\* an except clause that puts the cursor back where the call found it
PEExceptRollback(p) ==
    /\ task[p].pc = "pe_except"
    /\ \E raises \in BOOLEAN :
        task' = [task EXCEPT ![p].pc = "pe_finally",
                             ![p].handled = TRUE,
                             ![p].hook_exc = raises,
                             ![p].log = Append(task[p].log, <<"on_error_hook", task[p].exc>>)]
    /\ current_state' = task[p].pre
    /\ had_error' = TRUE
    /\ UNCHANGED <<table, started, stopped, locked, waiters, pe_raised>>
    /\ UNCHANGED <<queue_vars, loop_vars, timer_vars, ext_vars>>

\* except Exception as e: self._hooks.execute_on_error(e); an exception of
\* the error hook itself leaves the except clause
PEExcept(p) ==
    /\ task[p].pc = "pe_except"
    /\ \E raises \in BOOLEAN :
        task' = [task EXCEPT ![p].pc = "pe_finally",
                             ![p].handled = TRUE,
                             ![p].hook_exc = raises,
                             ![p].log = Append(task[p].log, <<"on_error_hook", task[p].exc>>)]
    /\ had_error' = TRUE
    /\ UNCHANGED <<current_state, table, started, stopped, locked, waiters, pe_raised>>
    /\ UNCHANGED <<queue_vars, loop_vars, timer_vars, ext_vars>>

PEFinally(p) ==
    /\ task[p].pc = "pe_finally"
    /\ AsyncLock_release(p)
    /\ UNCHANGED <<current_state, table, started, stopped, had_error>>
    /\ UNCHANGED <<queue_vars, loop_vars, timer_vars, ext_vars>>

\* ----------------------------------------------------------- AsyncEventQueue
\* a put that keeps the queue ordered by priority when priority mode is on
put_by_priority(q, e) ==
    IF priority_mode
    THEN LET before == SelectSeq(q, LAMBDA x : x.priority >= e.priority)
             after == SelectSeq(q, LAMBDA x : x.priority < e.priority)
         IN  before \o <<e>> \o after
    ELSE Append(q, e)

\* asyncio.Queue.put on the unbounded queue: the item goes to the end
put(q, e) == Append(q, e)

\* enqueue(event): the k-th call hands in event k with a priority of its own
Enqueue(pr) ==
    /\ Len(enqueued) < MaxEnqueued
    /\ LET e == [id |-> Len(enqueued) + 1, priority |-> pr]
       IN  /\ queue' = put(queue, e)
           /\ enqueued' = Append(enqueued, e)
    /\ UNCHANGED <<priority_mode, getter, dequeued>>
    /\ UNCHANGED <<current_state, table, started, stopped, locked, waiters, task, had_error, pe_raised>>
    /\ UNCHANGED <<loop_vars, timer_vars, ext_vars>>

\* dequeue(): wait_for(self._queue.get(), timeout=0.1) starts to wait
DequeueCall ==
    /\ getter = "idle"
    /\ getter' = "waiting"
    /\ UNCHANGED <<queue, priority_mode, enqueued, dequeued>>
    /\ UNCHANGED <<current_state, table, started, stopped, locked, waiters, task, had_error, pe_raised>>
    /\ UNCHANGED <<loop_vars, timer_vars, ext_vars>>

\* dequeue(): get() has an item, which is returned
DequeueReturn ==
    /\ getter = "waiting"
    /\ queue # <<>>
    /\ dequeued' = Append(dequeued, Head(queue))
    /\ queue' = Tail(queue)
    /\ getter' = "idle"
    /\ UNCHANGED <<priority_mode, enqueued>>
    /\ UNCHANGED <<current_state, table, started, stopped, locked, waiters, task, had_error, pe_raised>>
    /\ UNCHANGED <<loop_vars, timer_vars, ext_vars>>

\* a dequeue without the timeout: get() on an empty queue keeps waiting
DequeueBlocks ==
    /\ getter = "waiting"
    /\ queue = <<>>
    /\ UNCHANGED vars

\* dequeue(): nothing arrived within the timeout, None is returned
DequeueTimeout ==
    /\ getter = "waiting"
    /\ queue = <<>>
    /\ getter' = "idle"
    /\ UNCHANGED <<queue, priority_mode, enqueued, dequeued>>
    /\ UNCHANGED <<current_state, table, started, stopped, locked, waiters, task, had_error, pe_raised>>
    /\ UNCHANGED <<loop_vars, timer_vars, ext_vars>>

\* --------------------------------------------------------------------- loop
\* _AsyncEventProcessingLoop: start_loop runs as caller LoopTask of the
\* machine and is the only consumer of the queue, stop_loop runs as caller
\* StopTask.  The statements of start(), process_event() and stop() behind
\* the lock are the steps StartBody .. PEFinally above.
LoopTask == 1
StopTask == 2

\* transitions registered on the machine that the loop drives
LoopPool == {t \in ConcurrentPool : t.guard = "noop"}

\* start_loop(): self._running = True, then self._machine.start() up to the lock
LoopBegin ==
    /\ loop_pc = "idle"
    /\ running' = TRUE
    /\ IF started
       THEN /\ loop_pc' = "while"
            /\ UNCHANGED <<task, locked, waiters>>
       ELSE /\ loop_pc' = "in_start"
            /\ AsyncLock_acquire(LoopTask, Fresh("start", "none"), "start_body")
    /\ UNCHANGED <<current_state, table, started, stopped, had_error, pe_raised>>
    /\ UNCHANGED <<consumed, stop_pc, stop_seen>>
    /\ UNCHANGED <<queue_vars, timer_vars, ext_vars>>

\* self._machine.start() has returned, or raised out of start_loop
LoopStarted ==
    /\ loop_pc = "in_start"
    /\ task[LoopTask].pc = "idle"
    /\ loop_pc' = IF started THEN "while" ELSE "raised"
    /\ UNCHANGED <<running, consumed, stop_pc, stop_seen>>
    /\ UNCHANGED <<machine_vars, queue_vars, timer_vars, ext_vars>>

\* while self._running: event = await self._queue.dequeue()
LoopWhile ==
    /\ loop_pc = "while"
    /\ IF running
       THEN /\ getter = "idle"
            /\ getter' = "waiting"
            /\ loop_pc' = "in_dequeue"
       ELSE /\ loop_pc' = "done"
            /\ getter' = getter
    /\ UNCHANGED <<queue, priority_mode, enqueued, dequeued>>
    /\ UNCHANGED <<running, consumed, stop_pc, stop_seen>>
    /\ UNCHANGED <<machine_vars, timer_vars, ext_vars>>

\* dequeue() has returned.  if event: self._machine.process_event(event) up
\* to the lock; else: asyncio.sleep(0.01).  The queue knows an event by id
\* and priority only; what it is to the machine is drawn here.
LoopGot ==
    /\ loop_pc = "in_dequeue"
    /\ getter = "idle"
    /\ IF Len(dequeued) > consumed
       THEN /\ consumed' = consumed + 1
            /\ IF ~started \/ stopped
               THEN /\ loop_pc' = "while"
                    /\ UNCHANGED <<task, locked, waiters>>
               ELSE /\ loop_pc' = "in_process"
                    /\ \E ev \in Events :
                          AsyncLock_acquire(LoopTask, Fresh("process_event", ev), "pe_select")
       ELSE /\ loop_pc' = "sleep"
            /\ UNCHANGED <<consumed, task, locked, waiters>>
    /\ UNCHANGED <<current_state, table, started, stopped, had_error, pe_raised>>
    /\ UNCHANGED <<running, stop_pc, stop_seen>>
    /\ UNCHANGED <<queue_vars, timer_vars, ext_vars>>

\* process_event has returned, or raised out of start_loop
LoopProcessed ==
    /\ loop_pc = "in_process"
    /\ task[LoopTask].pc = "idle"
    /\ loop_pc' = IF pe_raised = "none" THEN "while" ELSE "raised"
    /\ UNCHANGED <<running, consumed, stop_pc, stop_seen>>
    /\ UNCHANGED <<machine_vars, queue_vars, timer_vars, ext_vars>>

\* await asyncio.sleep(0.01) is over
LoopSleep ==
    /\ loop_pc = "sleep"
    /\ loop_pc' = "while"
    /\ UNCHANGED <<running, consumed, stop_pc, stop_seen>>
    /\ UNCHANGED <<machine_vars, queue_vars, timer_vars, ext_vars>>

\* stop_loop(): self._running = False, then self._machine.stop() up to the lock
StopLoop ==
    /\ stop_pc = "idle"
    /\ running' = FALSE
    /\ stop_seen' = (loop_pc \notin {"idle", "done", "raised"})
    /\ IF stopped
       THEN /\ stop_pc' = "done"
            /\ UNCHANGED <<task, locked, waiters>>
       ELSE /\ stop_pc' = "in_stop"
            /\ AsyncLock_acquire(StopTask, Fresh("stop", "none"), "stop_body")
    /\ UNCHANGED <<current_state, table, started, stopped, had_error, pe_raised>>
    /\ UNCHANGED <<loop_pc, consumed>>
    /\ UNCHANGED <<queue_vars, timer_vars, ext_vars>>

\* self._machine.stop() has returned or raised: stop_loop is over
StopLoopReturn ==
    /\ stop_pc = "in_stop"
    /\ task[StopTask].pc = "idle"
    /\ stop_pc' = "done"
    /\ UNCHANGED <<running, loop_pc, consumed, stop_seen>>
    /\ UNCHANGED <<machine_vars, queue_vars, timer_vars, ext_vars>>

\* what start_loop does next, inside or outside the machine
LoopTaskStep ==
    \/ LoopStarted
    \/ LoopWhile
    \/ LoopGot
    \/ LoopProcessed
    \/ LoopSleep
    \/ StartBody(LoopTask)
    \/ StartFinally(LoopTask)
    \/ PESelect(LoopTask)
    \/ PEHookExit(LoopTask)
    \/ PEExit(LoopTask)
    \/ PEActions(LoopTask)
    \/ PESetState(LoopTask)
    \/ PEEnter(LoopTask)
    \/ PEHookEnter(LoopTask)
    \/ PEExcept(LoopTask)
    \/ PEFinally(LoopTask)
    \/ LockWake(LoopTask)

\* what stop_loop does next
StopTaskStep ==
    \/ StopLoopReturn
    \/ StopBody(StopTask)
    \/ StopFinally(StopTask)
    \/ LockWake(StopTask)

\* -------------------------------------------------------------------- timer
\* One Timer.  The operations are those of the timer state machine (IDLE,
\* RUNNING, CANCELLED, COMPLETED, ERROR) with the behaviour that
\* hsm/tests/unit/test_timers.py asserts.  Every operation runs inside the
\* timer's exclusive section, so each is one step here; a deferred execution
\* that came due waits for the section like any caller.
TimerId == "test_timer"
TimerEvents == {"E1", "E2"}
Durations == (0 - 1)..MaxDuration
TimerStates == {"IDLE", "RUNNING", "CANCELLED", "COMPLETED", "ERROR"}

None == <<>>
Some(v) == <<v>>

\* no call yet
NoCall == [op |-> "none", d |-> 0, e |-> "none", pre |-> "IDLE", result |-> "none", n |-> 0]

\* the record of a call: its arguments, the state it found, how it ended,
\* and a bit that flips with every call
Returned(op, d, e, r) ==
    [op |-> op, d |-> d, e |-> e, pre |-> timer_state, result |-> r, n |-> 1 - last.n]

\* a timer that can be scheduled once only
ValidScheduleStatesIdleOnly == {"IDLE"}

\* states in which schedule_timeout is accepted, the ERROR state included
ValidScheduleStatesWithError == {"IDLE", "CANCELLED", "COMPLETED", "ERROR"}

\* every state, RUNNING included
ValidScheduleStatesAll == TimerStates

\* states in which schedule_timeout is accepted: RUNNING and ERROR are
\* rejected, CANCELLED is accepted
ValidScheduleStates == {"IDLE", "CANCELLED", "COMPLETED"}

\* validation that looks at the state before the duration
validate_schedule_state_first(d) ==
    IF timer_state \notin ValidScheduleStates THEN "TimerSchedulingError"
    ELSE IF d < 0 THEN "ValueError"
    ELSE "ok"

\* schedule validation: a negative duration is a ValueError in every state,
\* then the state decides
validate_schedule(d) ==
    IF d < 0 THEN "ValueError"
    ELSE IF timer_state \notin ValidScheduleStates THEN "TimerSchedulingError"
    ELSE "ok"

\* remaining without the clamp at zero
remaining_unclamped ==
    IF timer_state = "RUNNING" THEN Some(duration[1] - elapsed) ELSE None

\* remaining time: max(0, duration - elapsed) while RUNNING, absent otherwise
remaining ==
    IF timer_state = "RUNNING"
    THEN Some(IF duration[1] - elapsed > 0 THEN duration[1] - elapsed ELSE 0)
    ELSE None

\* get_info(): a snapshot of the timer
get_info ==
    [id |-> TimerId, state |-> timer_state, start_time |-> start_time,
     duration |-> duration, remaining |-> remaining]

\* a cleanup that forgets to clear the duration
cleanup_keeps_duration ==
    /\ timer_event' = None
    /\ duration' = duration
    /\ start_time' = None
    /\ elapsed' = 0

\* the armed fields are cleared
cleanup ==
    /\ timer_event' = None
    /\ duration' = None
    /\ start_time' = None
    /\ elapsed' = 0

\* schedule_timeout(d, e)
schedule_timeout(d, e) ==
    LET r == validate_schedule(d)
    IN  /\ last' = Returned("schedule_timeout", d, e, r)
        /\ IF r = "ok"
           THEN /\ timer_state' = "RUNNING"
                /\ timer_event' = Some(e)
                /\ duration' = Some(d)
                /\ start_time' = Some("set")
                /\ elapsed' = 0
                /\ pending' = pending \cup {[event |-> e, due |-> d]}
                /\ invoked' = 0
                /\ cb_args' = None
                /\ shut' = IF shut = "never" THEN "never" ELSE "scheduled"
           ELSE UNCHANGED <<timer_state, timer_event, duration, start_time, elapsed,
                            pending, invoked, cb_args, shut>>
        /\ UNCHANGED handlers
        /\ UNCHANGED <<machine_vars, queue_vars, loop_vars, guard_vars, manager_vars>>

\* cancel_timeout that cancels whatever the id
cancel_matches_any_id(id) == timer_state = "RUNNING"

\* cancel_timeout acts only on a RUNNING timer whose armed event has this id
cancel_matches(id) == timer_state = "RUNNING" /\ timer_event = Some(id)

\* a cancel that leaves the pending deadline armed
cancelled_pending_kept == pending

\* the deferred executions left armed by a cancel: none
cancelled_pending == {}

\* the handlers in flight, once the deadlines they belong to are cleared
Cleared(hs) == {[h EXCEPT !.cleared = TRUE] : h \in hs}

\* cancel_timeout(id)
cancel_timeout(id) ==
    /\ last' = Returned("cancel_timeout", 0, id, "ok")
    /\ IF cancel_matches(id)
       THEN /\ timer_state' = "CANCELLED"
            /\ cleanup
            /\ pending' = cancelled_pending
            /\ handlers' = Cleared(handlers)
       ELSE UNCHANGED <<timer_state, timer_event, duration, start_time, elapsed, pending,
                        handlers>>
    /\ UNCHANGED <<invoked, cb_args, shut>>
    /\ UNCHANGED <<machine_vars, queue_vars, loop_vars, guard_vars, manager_vars>>

\* a shutdown that resets a RUNNING timer only
after_shutdown_running_only(st) == IF st = "RUNNING" THEN "IDLE" ELSE st

\* the state shutdown leaves: IDLE, whatever the state before
after_shutdown(st) == "IDLE"

\* shutdown()
shutdown ==
    /\ last' = Returned("shutdown", 0, "none", "ok")
    /\ timer_state' = after_shutdown(timer_state)
    /\ cleanup
    /\ pending' = {}
    /\ handlers' = Cleared(handlers)
    /\ shut' = "clean"
    /\ UNCHANGED <<invoked, cb_args>>
    /\ UNCHANGED <<machine_vars, queue_vars, loop_vars, guard_vars, manager_vars>>

\* time passes while a deadline is armed
Tick ==
    /\ timer_state = "RUNNING" /\ duration # None
    /\ elapsed < duration[1] + MaxLate
    /\ elapsed' = elapsed + 1
    /\ UNCHANGED <<timer_state, timer_event, duration, start_time, pending, handlers,
                   last, invoked, cb_args, shut>>
    /\ UNCHANGED <<machine_vars, queue_vars, loop_vars, guard_vars, manager_vars>>

\* the deadline of a deferred execution is reached: its handler starts and
\* asks for the timer's section
DeadlineDue ==
    /\ \E x \in pending :
          /\ elapsed >= x.due
          /\ pending' = pending \ {x}
          /\ handlers' = handlers \cup {[event |-> x.event, cleared |-> FALSE]}
    /\ UNCHANGED <<timer_state, timer_event, duration, start_time, elapsed,
                   last, invoked, cb_args, shut>>
    /\ UNCHANGED <<machine_vars, queue_vars, loop_vars, guard_vars, manager_vars>>

\* an expiry that reports COMPLETED whatever the callback did
callback_outcome_completed(raises) == "COMPLETED"

\* the state after the callback: COMPLETED if it returned, ERROR if it raised
callback_outcome(raises) == IF raises THEN "ERROR" ELSE "COMPLETED"

\* an expiry that acts whatever state it finds
expiry_applies_always(e) == TRUE

\* the expiry for event e acts only on a timer that is still RUNNING with e armed
expiry_applies(e) == timer_state = "RUNNING" /\ timer_event = Some(e)

\* deadline expiry, inside the section: if the timer is still RUNNING with
\* the same armed event the callback is invoked with (timer id, event)
timer_callback(e, raises) ==
    /\ \E h \in handlers : h.event = e /\ handlers' = handlers \ {h}
    /\ IF expiry_applies(e)
       THEN /\ invoked' = invoked + 1
            /\ cb_args' = Some([id |-> TimerId, event |-> e, raised |-> raises])
            /\ timer_state' = callback_outcome(raises)
            /\ cleanup
            /\ pending' = {}
       ELSE UNCHANGED <<timer_state, timer_event, duration, start_time, elapsed, pending,
                        invoked, cb_args>>
    /\ UNCHANGED <<last, shut>>
    /\ UNCHANGED <<machine_vars, queue_vars, loop_vars, guard_vars, manager_vars>>


\* ------------------------------------------------------------ workers
\* The workers of test_timer_concurrent_operations (threads) and of
\* test_async_timer_concurrent_operations (coroutines): each runs MaxRounds
\* rounds of schedule_timeout(d, E) then cancel_timeout(E's id) on one shared
\* timer whose callback does not raise. A round whose schedule_timeout raised
\* skips its cancel; a thread then calls timer._cleanup() and sets
\* timer._state to IDLE, outside the timer's section.
Workers == Tasks
WorkerEvent == "E1"
WorkerDuration == MaxDuration

\* where worker w stands after a round
next_round(w) ==
    [pc |-> IF worker[w].rounds + 1 = MaxRounds THEN "done" ELSE "schedule",
     rounds |-> worker[w].rounds + 1]

\* a worker that leaves after its schedule_timeout
after_schedule_no_cancel(w, result) == next_round(w)

\* where worker w stands after schedule_timeout: at its cancel_timeout if the
\* call returned, in the except clause if it raised
after_schedule(w, result) ==
    IF result = "ok" THEN [worker[w] EXCEPT !.pc = "cancel"]
    ELSE IF threaded THEN [worker[w] EXCEPT !.pc = "cleanup"]
    ELSE next_round(w)

\* timer.schedule_timeout(0.1, event) by worker w
WorkerSchedule(w) ==
    /\ worker[w].pc = "schedule"
    /\ schedule_timeout(WorkerDuration, WorkerEvent)
    /\ worker' = [worker EXCEPT ![w] = after_schedule(w, validate_schedule(WorkerDuration))]
    /\ UNCHANGED threaded

\* time.sleep(0.05); timer.cancel_timeout(event.get_id()) by worker w
WorkerCancel(w) ==
    /\ worker[w].pc = "cancel"
    /\ cancel_timeout(WorkerEvent)
    /\ worker' = [worker EXCEPT ![w] = next_round(w)]
    /\ UNCHANGED threaded

\* except (TimerError, ValueError): timer._cleanup(), which clears the
\* scheduling fields and may or may not disarm the deferred execution
WorkerCleanup(w) ==
    /\ worker[w].pc = "cleanup"
    /\ cleanup
    /\ \E ps \in {pending, {}} : pending' = ps
    /\ worker' = [worker EXCEPT ![w].pc = "set_idle"]
    /\ UNCHANGED <<timer_state, handlers, last, invoked, cb_args, shut, threaded>>
    /\ UNCHANGED <<machine_vars, queue_vars, loop_vars, guard_vars, manager_vars>>

\* timer._state = TimerState.IDLE
WorkerSetIdle(w) ==
    /\ worker[w].pc = "set_idle"
    /\ timer_state' = "IDLE"
    /\ worker' = [worker EXCEPT ![w] = next_round(w)]
    /\ UNCHANGED <<timer_event, duration, start_time, elapsed, pending, handlers,
                   last, invoked, cb_args, shut, threaded>>
    /\ UNCHANGED <<machine_vars, queue_vars, loop_vars, guard_vars, manager_vars>>

\* ------------------------------------------------------------ condition guards
\* ConditionGuard and AsyncConditionGuard of hsm/core/guards.py. A guard object
\* is its class and its condition; ThresholdGuard is a subclass of
\* ConditionGuard that overrides nothing. An exception is its class, its
\* message (the parts of the formatted string, in order) and, for a
\* GuardEvaluationError, what its constructor was given; cause is __cause__.
GuardClasses == {"ConditionGuard", "AsyncConditionGuard", "ThresholdGuard"}
Conditions == {"always", "never", "positive", "get", "invalid"}
StateData == {"{}", "{k: 0}", "{k: 1}"}

NoGuard == [class |-> "none", condition |-> "none"]
NoArgs == [event |-> "none", state_data |-> "none"]
NotCalled == [kind |-> "none", value |-> "none", error |-> None]

Return(v) == [kind |-> "return", value |-> v, error |-> None]
Raise(x) == [kind |-> "raise", value |-> "none", error |-> Some(x)]

Exc(class, message) ==
    [class |-> class, message |-> message, guard_name |-> "none",
     state_data |-> "none", event |-> "none", cause |-> None]

\* the user's condition applied to the state data:
\*   always   lambda d: True          never    lambda d: False
\*   positive lambda d: d["k"] > 0    get      lambda d: d.get("k")
\*   invalid  raises ValueError("bad data")
condition(c, d) ==
    CASE c = "always" -> Return("True")
      [] c = "never" -> Return("False")
      [] c = "positive" ->
            IF d = "{}" THEN Raise(Exc("KeyError", <<"'k'">>))
            ELSE Return(IF d = "{k: 1}" THEN "True" ELSE "False")
      [] c = "get" -> Return(IF d = "{}" THEN "None" ELSE IF d = "{k: 0}" THEN "0" ELSE "1")
      [] c = "invalid" -> Raise(Exc("ValueError", <<"bad data">>))

\* the values for which "not value" is true
Falsy == {"False", "None", "0"}

\* the classes that "except Exception" catches
ExceptionClasses == {"KeyError", "ValueError", "GuardEvaluationError"}

\* GuardBase.guard_name: the name of the guard's class
guard_name(g) == g.class

\* a helper that never chains the cause
raise_guard_error_no_cause(g, message, state_data, event, cause) ==
    [class |-> "GuardEvaluationError", message |-> message, guard_name |-> guard_name(g),
     state_data |-> state_data, event |-> event, cause |-> None]

\* AbstractGuard._raise_guard_error: the error it raises, "from cause" if a
\* cause is given
raise_guard_error(g, message, state_data, event, cause) ==
    [class |-> "GuardEvaluationError", message |-> message, guard_name |-> guard_name(g),
     state_data |-> state_data, event |-> event,
     cause |-> IF cause # None THEN cause ELSE None]

\* ConditionGuard.check: the try block, then the except clause for what the
\* try block raised, then return True
ConditionGuard_check(g, event, state_data) ==
    LET r == condition(g.condition, state_data)
        try == IF r.kind = "raise" THEN r
               ELSE IF r.value \in Falsy
                    THEN Raise(raise_guard_error(g, <<"Condition failed">>,
                                                 state_data, event, None))
                    ELSE Return("True")
    IN  IF try.kind = "raise" /\ try.error[1].class \in ExceptionClasses
        THEN Raise(raise_guard_error(g, <<"Condition evaluation error">> \o try.error[1].message,
                                     state_data, event, try.error))
        ELSE try

\* AsyncConditionGuard.check, with the condition awaited
AsyncConditionGuard_check(g, event, state_data) ==
    LET r == condition(g.condition, state_data)
        try == IF r.kind = "raise" THEN r
               ELSE IF r.value \in Falsy
                    THEN Raise(raise_guard_error(g, <<"Async condition failed">>,
                                                 state_data, event, None))
                    ELSE Return("True")
    IN  IF try.kind = "raise" /\ try.error[1].class \in ExceptionClasses
        THEN Raise(raise_guard_error(g, <<"Async condition evaluation error">> \o try.error[1].message,
                                     state_data, event, try.error))
        ELSE try

\* guard.check(event, state_data)
GuardCheck ==
    /\ check_result = NotCalled
    /\ check_result' =
          (IF guard.class # "AsyncConditionGuard"
           THEN ConditionGuard_check(guard, check_args.event, check_args.state_data)
           ELSE AsyncConditionGuard_check(guard, check_args.event, check_args.state_data))
    /\ UNCHANGED <<guard, check_args>>
    /\ UNCHANGED <<machine_vars, queue_vars, loop_vars, timer_vars, manager_vars, worker_vars>>

\* ------------------------------------------------------------ timer manager
\* TimerManager as hsm/tests/unit/test_timers.py exercises it: a registry of
\* timers by id. Its operations run in the registry's section; the operations
\* of a registered timer run in that timer's own section, whoever holds the
\* timer may call them, and here each is one step on the timer's state, armed
\* event and duration.
ManagerIds == {"timer1", "timer2"}
TimerKinds == {"Timer", "AsyncTimer"}
ManagedEvent == "E1"
ManagedDuration == 1

NoTimers == [id \in {} |-> "none"]
NoManagerCall == [op |-> "none", id |-> "none", result |-> "none", n |-> 0]

ManagerReturned(op, id, r) == [op |-> op, id |-> id, result |-> r, n |-> 1 - mgr_last.n]

\* Timer(id, callback) or AsyncTimer(id, callback), as constructed
new_timer(kind) == [kind |-> kind, state |-> "IDLE", event |-> None, duration |-> None]

\* timer.get_info() of the timer registered under id
timer_info(id) ==
    [id |-> id, state |-> registry[id].state, duration |-> registry[id].duration]

\* the registry's section is free
SectionFree == removing = None

\* a create that never finds the id taken
already_registered_never(id) == FALSE

\* the id is in the registry
already_registered(id) == id \in DOMAIN registry

\* create_timer(id, callback) for kind "Timer", create_async_timer(id, callback)
\* for kind "AsyncTimer"
create_timer(id, kind) ==
    LET op == IF kind = "Timer" THEN "create_timer" ELSE "create_async_timer"
    IN  /\ SectionFree
        /\ IF already_registered(id)
           THEN /\ mgr_last' = ManagerReturned(op, id, "ValueError")
                /\ UNCHANGED registry
           ELSE /\ registry' = [x \in DOMAIN registry \cup {id} |->
                                   IF x = id THEN new_timer(kind) ELSE registry[x]]
                /\ mgr_last' = ManagerReturned(op, id, kind)
        /\ UNCHANGED <<snapshot, removing>>
        /\ UNCHANGED <<machine_vars, queue_vars, loop_vars, timer_vars, guard_vars, worker_vars>>

\* get_timer(id): the timer, here by its kind, or None
get_timer(id) ==
    /\ SectionFree
    /\ mgr_last' = ManagerReturned("get_timer", id,
                                   IF id \in DOMAIN registry THEN registry[id].kind ELSE "None")
    /\ UNCHANGED <<registry, snapshot, removing>>
    /\ UNCHANGED <<machine_vars, queue_vars, loop_vars, timer_vars, guard_vars, worker_vars>>

\* remove_timer(id) up to its look at the timer's state: not registered is a
\* ValueError, RUNNING is a TimerError
remove_timer_check(id) ==
    /\ SectionFree
    /\ IF id \notin DOMAIN registry
       THEN mgr_last' = ManagerReturned("remove_timer", id, "ValueError") /\ UNCHANGED removing
       ELSE IF registry[id].state = "RUNNING"
            THEN mgr_last' = ManagerReturned("remove_timer", id, "TimerError")
                 /\ UNCHANGED removing
            ELSE removing' = Some(id) /\ UNCHANGED mgr_last
    /\ UNCHANGED <<registry, snapshot>>
    /\ UNCHANGED <<machine_vars, queue_vars, loop_vars, timer_vars, guard_vars, worker_vars>>

\* remove_timer(id) from there: the timer leaves the registry
remove_timer_delete ==
    /\ removing # None
    /\ registry' = [x \in DOMAIN registry \ {removing[1]} |-> registry[x]]
    /\ mgr_last' = ManagerReturned("remove_timer", removing[1], "ok")
    /\ removing' = None
    /\ UNCHANGED snapshot
    /\ UNCHANGED <<machine_vars, queue_vars, loop_vars, timer_vars, guard_vars, worker_vars>>

\* a snapshot entry that is the live timer
snapshot_entry_live(id) == [view |-> "live", info |-> timer_info(id)]

\* a snapshot entry: the TimerInfo that get_info() has built, a copy
snapshot_entry(id) == [view |-> "copy", info |-> timer_info(id)]

\* get_all_timers()
get_all_timers ==
    /\ SectionFree
    /\ snapshot' = Some([id \in DOMAIN registry |-> snapshot_entry(id)])
    /\ mgr_last' = ManagerReturned("get_all_timers", "none", "ok")
    /\ UNCHANGED <<registry, removing>>
    /\ UNCHANGED <<machine_vars, queue_vars, loop_vars, timer_vars, guard_vars, worker_vars>>

\* a TimerInfo whose fields can be assigned
timer_info_setattr_thawed(info, st) == [info EXCEPT !.state = st]

\* info.state = st on a TimerInfo: the dataclass is frozen, the assignment
\* raises and the info is as before
timer_info_setattr(info, st) == info

\* the holder of a snapshot assigns to the state of one of its entries
InfoAssign(id, st) ==
    /\ snapshot # None /\ id \in DOMAIN snapshot[1]
    /\ snapshot' = Some([snapshot[1] EXCEPT ![id].info = timer_info_setattr(@, st)])
    /\ mgr_last' = ManagerReturned("setattr", id, "FrozenInstanceError")
    /\ UNCHANGED <<registry, removing>>
    /\ UNCHANGED <<machine_vars, queue_vars, loop_vars, timer_vars, guard_vars, worker_vars>>

\* the registered timer id, with its state, armed event and duration replaced
Managed(id, st, e, d) ==
    /\ registry' = [registry EXCEPT ![id].state = st, ![id].event = e, ![id].duration = d]
    /\ UNCHANGED <<mgr_last, snapshot, removing>>
    /\ UNCHANGED <<machine_vars, queue_vars, loop_vars, timer_vars, guard_vars, worker_vars>>

\* timer.schedule_timeout(ManagedDuration, ManagedEvent) on a registered timer
managed_schedule_timeout(id) ==
    /\ id \in DOMAIN registry
    /\ registry[id].state \in ValidScheduleStates
    /\ Managed(id, "RUNNING", Some(ManagedEvent), Some(ManagedDuration))

\* timer.cancel_timeout(ManagedEvent) on a registered timer that is RUNNING
managed_cancel_timeout(id) ==
    /\ id \in DOMAIN registry
    /\ registry[id].state = "RUNNING" /\ registry[id].event = Some(ManagedEvent)
    /\ Managed(id, "CANCELLED", None, None)

\* the deadline of a registered timer expires
managed_expiry(id, raises) ==
    /\ id \in DOMAIN registry
    /\ registry[id].state = "RUNNING"
    /\ Managed(id, callback_outcome(raises), None, None)

\* timer.shutdown() on a registered timer
managed_shutdown(id) ==
    /\ id \in DOMAIN registry
    /\ Managed(id, after_shutdown(registry[id].state), None, None)


\* ------------------------------------------------------------ specification
\* AsyncStateMachine(initial_state), beside a queue that nobody uses
Init ==
    /\ current_state = InitialState
    /\ table = <<>>
    /\ started = FALSE /\ stopped = FALSE
    /\ locked = FALSE /\ waiters = <<>>
    /\ task = [p \in Tasks |-> NoTask]
    /\ had_error = FALSE
    /\ pe_raised = "none"
    /\ queue = <<>> /\ priority_mode = FALSE /\ getter = "idle"
    /\ enqueued = <<>> /\ dequeued = <<>>
    /\ running = FALSE /\ loop_pc = "idle" /\ consumed = 0
    /\ stop_pc = "idle" /\ stop_seen = FALSE
    /\ timer_state = "IDLE" /\ timer_event = None /\ duration = None
    /\ start_time = None /\ elapsed = 0 /\ pending = {} /\ handlers = {}
    /\ last = NoCall /\ invoked = 0 /\ cb_args = None /\ shut = "never"
    /\ guard = NoGuard /\ check_args = NoArgs /\ check_result = NotCalled
    /\ registry = NoTimers /\ mgr_last = NoManagerCall /\ snapshot = None /\ removing = None
    /\ worker = <<>> /\ threaded = FALSE

\* AsyncEventQueue(priority), beside a machine that nobody calls
InitQueue ==
    /\ current_state = InitialState
    /\ table = <<>>
    /\ started = FALSE /\ stopped = FALSE
    /\ locked = FALSE /\ waiters = <<>>
    /\ task = [p \in Tasks |-> NoTask]
    /\ had_error = FALSE
    /\ pe_raised = "none"
    /\ queue = <<>> /\ priority_mode \in BOOLEAN /\ getter = "idle"
    /\ enqueued = <<>> /\ dequeued = <<>>
    /\ running = FALSE /\ loop_pc = "idle" /\ consumed = 0
    /\ stop_pc = "idle" /\ stop_seen = FALSE
    /\ timer_state = "IDLE" /\ timer_event = None /\ duration = None
    /\ start_time = None /\ elapsed = 0 /\ pending = {} /\ handlers = {}
    /\ last = NoCall /\ invoked = 0 /\ cb_args = None /\ shut = "never"
    /\ guard = NoGuard /\ check_args = NoArgs /\ check_result = NotCalled
    /\ registry = NoTimers /\ mgr_last = NoManagerCall /\ snapshot = None /\ removing = None
    /\ worker = <<>> /\ threaded = FALSE

\* what one caller p can do
TaskStep(p) ==
    \/ StartCall(p)
    \/ StartBody(p)
    \/ StartFinally(p)
    \/ StopCall(p)
    \/ StopBody(p)
    \/ StopFinally(p)
    \/ \E ev \in Events : PECall(p, ev)
    \/ PESelect(p)
    \/ PEHookExit(p)
    \/ PEExit(p)
    \/ PEActions(p)
    \/ PESetState(p)
    \/ PEEnter(p)
    \/ PEHookEnter(p)
    \/ PEExcept(p)
    \/ PEFinally(p)

\* Concurrent callers of one machine.
Next ==
    \/ \E t \in ConcurrentPool : AddTransition(t)
    \/ \E p \in Tasks : TaskStep(p)
    \/ \E p \in Tasks : LockWake(p)

Spec == Init /\ [][Next]_vars

\* One caller, which never finds the lock taken, and every kind of
\* transition table.
NextSelect ==
    \/ \E t \in TransitionPool : AddTransition(t)
    \/ TaskStep(1)

SpecSelect == Init /\ [][NextSelect]_vars

\* The event queue, its producers and its consumer.
NextQueue ==
    \/ \E pr \in Priorities : Enqueue(pr)
    \/ DequeueCall
    \/ DequeueReturn
    \/ DequeueTimeout

SpecQueue == InitQueue /\ [][NextQueue]_vars

\* Timer(TimerId, callback), beside a machine and a queue that nobody uses
InitTimer ==
    /\ current_state = InitialState
    /\ table = <<>>
    /\ started = FALSE /\ stopped = FALSE
    /\ locked = FALSE /\ waiters = <<>>
    /\ task = [p \in Tasks |-> NoTask]
    /\ had_error = FALSE
    /\ pe_raised = "none"
    /\ queue = <<>> /\ priority_mode = FALSE /\ getter = "idle"
    /\ enqueued = <<>> /\ dequeued = <<>>
    /\ running = FALSE /\ loop_pc = "idle" /\ consumed = 0
    /\ stop_pc = "idle" /\ stop_seen = FALSE
    /\ timer_state = "IDLE" /\ timer_event = None /\ duration = None
    /\ start_time = None /\ elapsed = 0 /\ pending = {} /\ handlers = {}
    /\ last = NoCall /\ invoked = 0 /\ cb_args = None /\ shut = "never"
    /\ guard = NoGuard /\ check_args = NoArgs /\ check_result = NotCalled
    /\ registry = NoTimers /\ mgr_last = NoManagerCall /\ snapshot = None /\ removing = None
    /\ worker = <<>> /\ threaded = FALSE

\* One timer, its callers and its deferred executions.
NextTimer ==
    \/ \E d \in Durations, e \in TimerEvents : schedule_timeout(d, e) /\ UNCHANGED worker_vars
    \/ \E id \in TimerEvents : cancel_timeout(id) /\ UNCHANGED worker_vars
    \/ shutdown /\ UNCHANGED worker_vars
    \/ Tick /\ UNCHANGED worker_vars
    \/ DeadlineDue /\ UNCHANGED worker_vars
    \/ \E e \in TimerEvents, raises \in BOOLEAN : timer_callback(e, raises) /\ UNCHANGED worker_vars

SpecTimer == InitTimer /\ [][NextTimer]_vars

\* The clock advances, a deadline that is reached starts its handler, and a
\* handler that waits for the section gets it.
SpecTimerFair ==
    /\ InitTimer /\ [][NextTimer]_vars
    /\ WF_vars(Tick /\ UNCHANGED worker_vars)
    /\ WF_vars(DeadlineDue /\ UNCHANGED worker_vars)
    /\ WF_vars(\E e \in TimerEvents, raises \in BOOLEAN :
                  timer_callback(e, raises) /\ UNCHANGED worker_vars)

\* _AsyncEventProcessingLoop(machine, event_queue), over a machine whose
\* table is filled before start_loop is called
InitLoop ==
    /\ current_state = InitialState
    /\ table = <<>>
    /\ started = FALSE /\ stopped = FALSE
    /\ locked = FALSE /\ waiters = <<>>
    /\ task = [p \in Tasks |-> NoTask]
    /\ had_error = FALSE
    /\ pe_raised = "none"
    /\ queue = <<>> /\ priority_mode = FALSE /\ getter = "idle"
    /\ enqueued = <<>> /\ dequeued = <<>>
    /\ running = FALSE /\ loop_pc = "idle" /\ consumed = 0
    /\ stop_pc = "idle" /\ stop_seen = FALSE
    /\ timer_state = "IDLE" /\ timer_event = None /\ duration = None
    /\ start_time = None /\ elapsed = 0 /\ pending = {} /\ handlers = {}
    /\ last = NoCall /\ invoked = 0 /\ cb_args = None /\ shut = "never"
    /\ guard = NoGuard /\ check_args = NoArgs /\ check_result = NotCalled
    /\ registry = NoTimers /\ mgr_last = NoManagerCall /\ snapshot = None /\ removing = None
    /\ worker = <<>> /\ threaded = FALSE

\* The processing loop, whoever stops it, and the producers of events.
NextLoop ==
    \/ \E t \in LoopPool : loop_pc = "idle" /\ AddTransition(t)
    \/ Enqueue(0)
    \/ LoopBegin
    \/ LoopTaskStep
    \/ StopLoop
    \/ StopTaskStep
    \/ DequeueReturn
    \/ DequeueTimeout

SpecLoop == InitLoop /\ [][NextLoop]_vars

\* The asyncio event loop runs every coroutine that is ready, and the timer
\* of wait_for fires: start_loop and stop_loop go on whenever they can, and
\* a dequeue that can return does.
SpecLoopFair ==
    /\ InitLoop /\ [][NextLoop]_vars
    /\ WF_vars(LoopTaskStep)
    /\ WF_vars(StopTaskStep)
    /\ WF_vars(DequeueReturn)
    /\ WF_vars(DequeueTimeout)

\* A ConditionGuard or AsyncConditionGuard with some condition, and
\* the arguments of a check call on it, beside a machine that nobody calls
InitGuard ==
    /\ current_state = InitialState
    /\ table = <<>>
    /\ started = FALSE /\ stopped = FALSE
    /\ locked = FALSE /\ waiters = <<>>
    /\ task = [p \in Tasks |-> NoTask]
    /\ had_error = FALSE
    /\ pe_raised = "none"
    /\ queue = <<>> /\ priority_mode = FALSE /\ getter = "idle"
    /\ enqueued = <<>> /\ dequeued = <<>>
    /\ running = FALSE /\ loop_pc = "idle" /\ consumed = 0
    /\ stop_pc = "idle" /\ stop_seen = FALSE
    /\ timer_state = "IDLE" /\ timer_event = None /\ duration = None
    /\ start_time = None /\ elapsed = 0 /\ pending = {} /\ handlers = {}
    /\ last = NoCall /\ invoked = 0 /\ cb_args = None /\ shut = "never"
    /\ guard \in [class : GuardClasses, condition : Conditions]
    /\ check_args \in [event : Events, state_data : StateData]
    /\ check_result = NotCalled
    /\ registry = NoTimers /\ mgr_last = NoManagerCall /\ snapshot = None /\ removing = None
    /\ worker = <<>> /\ threaded = FALSE

NextGuard == GuardCheck

SpecGuard == InitGuard /\ [][NextGuard]_vars

\* TimerManager(), beside a machine that nobody calls
InitManager ==
    /\ current_state = InitialState
    /\ table = <<>>
    /\ started = FALSE /\ stopped = FALSE
    /\ locked = FALSE /\ waiters = <<>>
    /\ task = [p \in Tasks |-> NoTask]
    /\ had_error = FALSE
    /\ pe_raised = "none"
    /\ queue = <<>> /\ priority_mode = FALSE /\ getter = "idle"
    /\ enqueued = <<>> /\ dequeued = <<>>
    /\ running = FALSE /\ loop_pc = "idle" /\ consumed = 0
    /\ stop_pc = "idle" /\ stop_seen = FALSE
    /\ timer_state = "IDLE" /\ timer_event = None /\ duration = None
    /\ start_time = None /\ elapsed = 0 /\ pending = {} /\ handlers = {}
    /\ last = NoCall /\ invoked = 0 /\ cb_args = None /\ shut = "never"
    /\ guard = NoGuard /\ check_args = NoArgs /\ check_result = NotCalled
    /\ registry = NoTimers /\ mgr_last = NoManagerCall /\ snapshot = None /\ removing = None
    /\ worker = <<>> /\ threaded = FALSE

\* The callers of one TimerManager and of the timers it has handed out.
NextManager ==
    \/ \E id \in ManagerIds, kind \in TimerKinds : create_timer(id, kind)
    \/ \E id \in ManagerIds : get_timer(id)
    \/ \E id \in ManagerIds : remove_timer_check(id)
    \/ remove_timer_delete
    \/ get_all_timers
    \/ \E id \in ManagerIds : InfoAssign(id, "COMPLETED")
    \/ \E id \in ManagerIds : managed_schedule_timeout(id)
    \/ \E id \in ManagerIds : managed_cancel_timeout(id)
    \/ \E id \in ManagerIds, raises \in BOOLEAN : managed_expiry(id, raises)
    \/ \E id \in ManagerIds : managed_shutdown(id)

SpecManager == InitManager /\ [][NextManager]_vars

\* One timer shared by workers that are all threads or all coroutines
InitWorkers ==
    /\ current_state = InitialState
    /\ table = <<>>
    /\ started = FALSE /\ stopped = FALSE
    /\ locked = FALSE /\ waiters = <<>>
    /\ task = [p \in Tasks |-> NoTask]
    /\ had_error = FALSE
    /\ pe_raised = "none"
    /\ queue = <<>> /\ priority_mode = FALSE /\ getter = "idle"
    /\ enqueued = <<>> /\ dequeued = <<>>
    /\ running = FALSE /\ loop_pc = "idle" /\ consumed = 0
    /\ stop_pc = "idle" /\ stop_seen = FALSE
    /\ timer_state = "IDLE" /\ timer_event = None /\ duration = None
    /\ start_time = None /\ elapsed = 0 /\ pending = {} /\ handlers = {}
    /\ last = NoCall /\ invoked = 0 /\ cb_args = None /\ shut = "never"
    /\ guard = NoGuard /\ check_args = NoArgs /\ check_result = NotCalled
    /\ registry = NoTimers /\ mgr_last = NoManagerCall /\ snapshot = None /\ removing = None
    /\ worker = [w \in Workers |-> [pc |-> "schedule", rounds |-> 0]]
    /\ threaded \in BOOLEAN

\* The workers, the clock and the deferred executions of the shared timer.
NextWorkers ==
    \/ \E w \in Workers : WorkerSchedule(w)
    \/ \E w \in Workers : WorkerCancel(w)
    \/ \E w \in Workers : WorkerCleanup(w)
    \/ \E w \in Workers : WorkerSetIdle(w)
    \/ Tick /\ UNCHANGED worker_vars
    \/ DeadlineDue /\ UNCHANGED worker_vars
    \/ timer_callback(WorkerEvent, FALSE) /\ UNCHANGED worker_vars

SpecWorkers == InitWorkers /\ [][NextWorkers]_vars

\* ------------------------------------------------------------------ claims
InCall(p) == task[p].op = "process_event" /\ InSection(p)

AtEnd(p) == task[p].op = "process_event" /\ task[p].pc = "pe_finally"

Passes(i, cur, ev) == table[i].source = cur /\ evaluate_guards(table[i], ev) = "pass"

Raises(i, cur, ev) == table[i].source = cur /\ evaluate_guards(table[i], ev) = "raise"

Names(l) == [k \in 1..Len(l) |-> l[k][1]]

\* the steps of a transition from a to b for event ev, in the order required
Firing(a, b, ev) ==
    << <<"on_exit_hook", a>>, <<"on_exit", a>>, <<"actions", ev>>,
       <<"set_current_state", b>>, <<"on_enter", b>>, <<"on_enter_hook", b>> >>

IsPrefix(s, t) == Len(s) <= Len(t) /\ s = SubSeq(t, 1, Len(s))

StepExceptions ==
    {"guards", "on_exit_hook", "on_exit", "actions", "on_enter", "on_enter_hook"}

WithoutError(l) == SelectSeq(l, LAMBDA x : x[1] # "on_error_hook")

\* C1: at most one caller is between acquiring and releasing the machine's
\* lock, the lock is held for as long as a caller is there, and every other
\* caller that got past its entry check is queued for the lock.
C1_MutualExclusion ==
    /\ Cardinality({p \in Tasks : InSection(p)}) <= 1
    /\ \A p \in Tasks : InSection(p) => locked
    /\ \A p \in Tasks : task[p].pc = "wait" => \E k \in 1..Len(waiters) : waiters[k] = p

\* a process_event call is inside its transition while another waits
C1_Witness ==
    \E p, q \in Tasks :
        /\ task[p].pc = "pe_actions"
        /\ task[q].pc = "wait" /\ task[q].op = "process_event"

\* C2: a process_event call moves the cursor at most once, and the transition
\* it chose starts at the current state, has passing guards and a priority
\* no lower than that of any transition of the table of which this is true.
C2_MaxPriority ==
    \A p \in Tasks : InCall(p) =>
        /\ Cardinality({k \in 1..Len(task[p].log) : task[p].log[k][1] = "set_current_state"}) <= 1
        /\ task[p].chosen_transition # 0 =>
            LET c == task[p].chosen_transition
            IN  /\ c \in 1..Len(table)
                /\ Passes(c, task[p].pre, task[p].event)
                /\ \A i \in 1..Len(table) :
                      Passes(i, task[p].pre, task[p].event)
                          => table[i].priority <= table[c].priority
                /\ \A k \in 1..Len(task[p].log) :
                      task[p].log[k][1] = "set_current_state"
                          => task[p].log[k][2] = table[c].target

\* the transition that fires was registered after one of lower priority
C2_Witness ==
    /\ AtEnd(1) /\ task[1].exc = "none"
    /\ task[1].chosen_transition = 2
    /\ Passes(1, task[1].pre, task[1].event)
    /\ table[1].priority < table[2].priority
    /\ current_state = table[2].target

\* C3: the steps of a call are a prefix of: on-exit hook for A, A's exit,
\* the actions, cursor to B, B's enter, on-enter hook for B (then at most
\* the error hook), and a call that ends without an exception has made all
\* six and leaves the cursor at B.
C3_StepOrder ==
    \A p \in Tasks : (InCall(p) /\ task[p].chosen_transition # 0) =>
        LET a == task[p].pre
            b == table[task[p].chosen_transition].target
            all == Firing(a, b, task[p].event)
        IN  /\ IsPrefix(WithoutError(task[p].log), all)
            /\ (task[p].pc = "pe_finally" /\ task[p].exc = "none")
                  => (task[p].log = all /\ current_state = b)

\* a transition from A to B has fired completely
C3_Witness ==
    \E p \in Tasks :
        /\ AtEnd(p) /\ task[p].exc = "none" /\ task[p].chosen_transition # 0
        /\ task[p].pre = "A" /\ current_state = "B"
        /\ Len(task[p].log) = 6

\* C4: when the on-exit hook, the exit behaviour or an action raised, the
\* cursor is where it was before the call and the call ends with the
\* exception handed to the error hook.
C4_CursorKept ==
    \A p \in Tasks :
        (InCall(p) /\ task[p].exc \in {"on_exit_hook", "on_exit", "actions"}) =>
            /\ current_state = task[p].pre
            /\ task[p].pc = "pe_finally" =>
                  task[p].log[Len(task[p].log)] = <<"on_error_hook", task[p].exc>>

\* an action raised and the call is about to end
C4_Witness ==
    \E p \in Tasks :
        /\ AtEnd(p) /\ task[p].exc = "actions"
        /\ table[task[p].chosen_transition].target # task[p].pre

\* C5: no process_event call raises the exception of one of its steps to its
\* caller; a call in which a step raised ends with that exception handed to
\* the error hook, exactly once, leaves _started and _stopped as they were,
\* and its last step frees the lock.
C5_Contained ==
    /\ [](/\ pe_raised \notin StepExceptions
          /\ \A p \in Tasks : (AtEnd(p) /\ task[p].exc # "none") =>
                /\ task[p].handled
                /\ SelectSeq(task[p].log, LAMBDA x : x[1] = "on_error_hook")
                      = << <<"on_error_hook", task[p].exc>> >>)
    /\ [][\A p \in Tasks :
            /\ (InCall(p) /\ task[p].exc # "none" /\ task'[p] # task[p])
                  => (started' = started /\ stopped' = stopped)
            /\ (AtEnd(p) /\ task'[p].pc = "idle") => ~locked']_vars

\* after an error went to the error hook, a later call fires a transition
C5_Witness ==
    /\ had_error
    /\ \E p \in Tasks :
        /\ AtEnd(p) /\ task[p].exc = "none"
        /\ task[p].chosen_transition # 0 /\ Len(task[p].log) = 6

\* no transition from the state the call started in passes its guards
NonePasses(p) ==
    \A i \in 1..Len(table) : ~Passes(i, task[p].pre, task[p].event)

\* C6 as claimed: when no transition from the current state passes its
\* guards, the call leaves the cursor alone and invokes no hook at all,
\* the error hook included.
C6_NoOpNoErrorHook ==
    \A p \in Tasks : (AtEnd(p) /\ NonePasses(p)) =>
        (current_state = task[p].pre /\ task[p].log = <<>>)

\* C6: when no transition from the current state passes its guards, the
\* call leaves the cursor alone and invokes no on-exit hook, on-enter hook
\* or action; the error hook is invoked only with the exception of a guard
\* that raised.
C6_NoOp ==
    \A p \in Tasks : (InCall(p) /\ task[p].pc # "pe_select" /\ NonePasses(p)) =>
        /\ current_state = task[p].pre
        /\ task[p].chosen_transition = 0
        /\ \/ task[p].log = <<>>
           \/ /\ task[p].log = << <<"on_error_hook", "guards">> >>
              /\ \E i \in 1..Len(table) : Raises(i, task[p].pre, task[p].event)
        /\ (task[p].pc = "pe_finally"
              /\ ~\E i \in 1..Len(table) : Raises(i, task[p].pre, task[p].event))
              => task[p].log = <<>>

\* a call ends as a no-op although a transition leaves the current state
C6_Witness ==
    /\ AtEnd(1) /\ NonePasses(1) /\ task[1].log = <<>>
    /\ \E i \in 1..Len(table) :
          table[i].source = task[1].pre /\ evaluate_guards(table[i], task[1].event) = "fail"

\* C7: among the passing transitions of highest priority the chosen one is
\* the one registered first.
C7_FirstRegistered ==
    \A p \in Tasks : (InCall(p) /\ task[p].chosen_transition # 0) =>
        \A i \in 1..Len(table) :
            (/\ Passes(i, task[p].pre, task[p].event)
             /\ table[i].priority = table[task[p].chosen_transition].priority)
                => task[p].chosen_transition <= i

\* two passing transitions share the highest priority
C7_Witness ==
    /\ AtEnd(1) /\ task[1].chosen_transition = 1
    /\ Len(table) >= 2
    /\ Passes(2, task[1].pre, task[1].event)
    /\ table[2].priority = table[1].priority

\* C8 as claimed: when the guards of a transition from the current state
\* raise while another transition from it passes, the passing transition of
\* highest priority is still chosen and the error hook gets the exception.
C8_RaisingGuardSkipped ==
    \A p \in Tasks :
        (/\ AtEnd(p)
         /\ \E i \in 1..Len(table) : Raises(i, task[p].pre, task[p].event)
         /\ \E i \in 1..Len(table) : Passes(i, task[p].pre, task[p].event)) =>
            /\ task[p].chosen_transition # 0
            /\ \E k \in 1..Len(task[p].log) : task[p].log[k] = <<"on_error_hook", "guards">>

\* C9: the cursor is the initial state or the target of a registered
\* transition, and it moves only in the cursor step of a process_event call
\* that holds the lock.
C9_ValidCursor ==
    /\ [](current_state = InitialState
            \/ \E i \in 1..Len(table) : table[i].target = current_state)
    /\ [][current_state' # current_state =>
            /\ locked /\ locked'
            /\ \E p \in Tasks : task[p].pc = "pe_set_state" /\ task'[p].pc = "pe_enter"
            /\ Cardinality({p \in Tasks : InSection(p)}) = 1]_vars

\* the cursor has just moved off the initial state
C9_Witness ==
    \E p \in Tasks :
        task[p].pc = "pe_enter" /\ current_state # InitialState /\ locked

\* C10: what dequeue has returned, followed by what is still queued, is what
\* enqueue was given, in the order of the enqueue calls.
C10_SubmissionOrder ==
    /\ dequeued \o queue = enqueued
    /\ \A k \in 1..Len(enqueued) : enqueued[k].id = k

\* in priority mode an event was returned before a later one of higher priority
C10_Witness ==
    /\ priority_mode
    /\ Len(dequeued) >= 2
    /\ dequeued[1].priority < dequeued[2].priority

\* ----------------------------------------------------------- timer claims
\* this step is a call on the timer
TimerCall(op) == last'.n # last.n /\ last'.op = op

Armed == <<timer_state, timer_event, duration, start_time>>

\* C12: schedule_timeout with a negative duration fails with ValueError in
\* every timer state, RUNNING included, and leaves the state, the armed
\* event, the duration and the start time as they were.
C12_NegativeDuration ==
    [][(TimerCall("schedule_timeout") /\ last'.d < 0)
          => (last'.result = "ValueError" /\ UNCHANGED <<Armed, pending>>)]_vars

C12_Witness ==
    /\ last.op = "schedule_timeout" /\ last.d < 0 /\ last.result = "ValueError"
    /\ last.pre = "RUNNING" /\ timer_state = "RUNNING"

\* C13: schedule_timeout with a non-negative duration on a RUNNING timer
\* fails with TimerSchedulingError and the timer stays RUNNING with its
\* event and deadline; at most one deadline is armed at any instant.
C13_SchedulingConflict ==
    /\ [][(TimerCall("schedule_timeout") /\ last'.d >= 0 /\ timer_state = "RUNNING")
             => (last'.result = "TimerSchedulingError"
                 /\ UNCHANGED <<Armed, elapsed, pending>>)]_vars
    /\ [](Cardinality(pending) <= 1 /\ (pending # {} => timer_state = "RUNNING"))

C13_Witness ==
    /\ last.op = "schedule_timeout" /\ last.d >= 0 /\ last.pre = "RUNNING"
    /\ last.result = "TimerSchedulingError"
    /\ timer_state = "RUNNING" /\ Cardinality(pending) = 1

\* C14: cancel_timeout with the id of the armed event on a RUNNING timer
\* moves it to CANCELLED and clears start_time, duration and remaining.
C14_CancelMatching ==
    [][(TimerCall("cancel_timeout") /\ timer_state = "RUNNING"
          /\ timer_event = Some(last'.e))
          => (timer_state' = "CANCELLED" /\ start_time' = None /\ duration' = None
              /\ get_info'.remaining = None /\ pending' = {})]_vars

C14_Witness ==
    /\ last.op = "cancel_timeout" /\ last.pre = "RUNNING"
    /\ timer_state = "CANCELLED" /\ duration = None /\ start_time = None

\* C15: cancel_timeout returns without error and changes nothing when the
\* timer is not RUNNING or the id is not the armed event's: a RUNNING timer
\* stays RUNNING and its pending deadline stays armed.
C15_CancelNoOp ==
    [][(TimerCall("cancel_timeout")
          /\ ~(timer_state = "RUNNING" /\ timer_event = Some(last'.e)))
          => (last'.result = "ok"
              /\ UNCHANGED <<Armed, elapsed, pending, handlers>>)]_vars

C15_Witness ==
    /\ last.op = "cancel_timeout" /\ last.result = "ok" /\ last.pre = "RUNNING"
    /\ timer_state = "RUNNING" /\ timer_event # Some(last.e) /\ pending # {}

\* C16: in every snapshot remaining is absent exactly when the state is not
\* RUNNING, and while RUNNING 0 <= remaining <= duration.
C16_Remaining ==
    LET i == get_info
    IN  /\ (i.remaining = None) <=> (i.state # "RUNNING")
        /\ i.state = "RUNNING" =>
              /\ i.duration # None
              /\ 0 <= i.remaining[1] /\ i.remaining[1] <= i.duration[1]

C16_Witness ==
    /\ timer_state = "RUNNING" /\ elapsed > duration[1]
    /\ get_info.remaining = Some(0)

\* C17: after shutdown() the timer is IDLE with start_time and duration
\* absent, whatever its state before, and it stays so until the next
\* successful schedule_timeout, whichever cancel_timeout or expiry runs
\* before or after the shutdown.
C17_ShutdownIdle ==
    shut = "clean" =>
        /\ timer_state = "IDLE" /\ start_time = None /\ duration = None
        /\ pending = {}

C17_Witness ==
    /\ shut = "clean" /\ last.op = "cancel_timeout" /\ timer_state = "IDLE"
    /\ handlers # {}

C19_ErrorRejected ==
    [][(TimerCall("schedule_timeout") /\ last'.d >= 0)
          => /\ timer_state \in {"ERROR", "RUNNING"}
                  => (last'.result = "TimerSchedulingError" /\ UNCHANGED Armed)
             /\ timer_state = "CANCELLED"
                  => (last'.result = "ok" /\ timer_state' = "RUNNING")]_vars

C19_Witness ==
    /\ last.op = "schedule_timeout" /\ last.d >= 0 /\ last.pre = "ERROR"
    /\ last.result = "TimerSchedulingError" /\ timer_state = "ERROR"

\* C20: an armed deadline that is neither cancelled nor shut down leads to
\* one invocation of the callback with (timer id, armed event); that step
\* makes the timer COMPLETED if the callback returned and ERROR if it
\* raised, clears duration, start_time and remaining, and hands no result
\* to a caller; no deadline has the callback invoked twice.
C20_CallbackOnce ==
    /\ \A e \in TimerEvents :
          (timer_state = "RUNNING" /\ timer_event = Some(e))
             ~> \/ /\ invoked = 1
                   /\ cb_args # None /\ cb_args[1].id = TimerId /\ cb_args[1].event = e
                \/ timer_state \in {"CANCELLED", "IDLE"}
    /\ [][(timer_state = "RUNNING" /\ timer_state' \in {"COMPLETED", "ERROR"})
             => /\ invoked' = 1
                /\ cb_args' # None /\ cb_args'[1].event = timer_event[1]
                /\ timer_state' = (IF cb_args'[1].raised THEN "ERROR" ELSE "COMPLETED")
                /\ duration' = None /\ start_time' = None
                /\ get_info'.remaining = None
                /\ last' = last]_vars
    /\ [](invoked <= 1 /\ (timer_state \in {"COMPLETED", "ERROR"} => invoked = 1))

C20_Witness ==
    /\ timer_state = "ERROR" /\ invoked = 1
    /\ cb_args # None /\ cb_args[1].raised /\ last.op = "schedule_timeout"

\* a handler of hs leaves, and not by a call: an expiry has had the timer's
\* section
Expiry(hs) == last' = last /\ \E h \in hs : h \in handlers /\ h \notin handlers'

\* C21: once a shutdown or a matching cancel_timeout has cleared a pending
\* deadline, no expiry invokes the callback for that deadline, also when the
\* timer has been scheduled again with the same event in the meantime.
C21_NoCallbackAfterClear ==
    [][Expiry({h \in handlers : h.cleared}) => (invoked' = invoked /\ UNCHANGED Armed)]_vars

\* C22: of a matching cancel_timeout and the expiry of the deadline of a
\* RUNNING timer one takes effect. The cancel that finds the timer RUNNING
\* makes it CANCELLED without invoking the callback, and an expiry that finds
\* it no longer RUNNING changes nothing; an expiry that finds it RUNNING
\* invokes the callback once and makes it COMPLETED or ERROR, after which the
\* cancel changes nothing. A CANCELLED timer has not had its callback run.
C22_CancelOrExpiry ==
    /\ [](timer_state = "CANCELLED" => invoked = 0)
    /\ [][/\ (TimerCall("cancel_timeout") /\ cancel_matches(last'.e))
               => (timer_state' = "CANCELLED" /\ invoked' = invoked)
          /\ (TimerCall("cancel_timeout") /\ timer_state # "RUNNING")
               => UNCHANGED <<Armed, invoked, cb_args>>
          /\ (Expiry(handlers) /\ timer_state # "RUNNING")
               => UNCHANGED <<Armed, invoked, cb_args>>
          /\ (Expiry(handlers) /\ timer_state = "RUNNING" /\ timer_state' # "RUNNING")
               => /\ invoked' = invoked + 1
                  /\ timer_state' \in {"COMPLETED", "ERROR"}]_vars

\* the cancel has won: the timer is CANCELLED while the expiry of the
\* cancelled deadline still waits for the section
C22_Witness ==
    /\ timer_state = "CANCELLED" /\ last.op = "cancel_timeout" /\ last.pre = "RUNNING"
    /\ \E h \in handlers : h.event = last.e /\ h.cleared
    /\ invoked = 0

\* ------------------------------------------------------------ loop claims
LoopOver == loop_pc \in {"done", "raised"}

Processes(p) ==
    /\ task[p].op = "process_event" /\ task'[p].op = "process_event"
    /\ (task'[p].log # task[p].log \/ current_state' # current_state)

EnterFailed(p) == AtEnd(p) /\ task[p].exc \in {"on_enter", "on_enter_hook"}

\* what a call has done when step number n of its transition raised exception x
UpTo(p, n, x) ==
    SubSeq(Firing(task[p].pre, table[task[p].chosen_transition].target, task[p].event), 1, n)
        \o << <<"on_error_hook", x>> >>

\* C29 as claimed: when the target's enter behaviour or the on-enter hook
\* dispatch raises, the cursor is the transition's target, the exit steps and
\* the actions have run once, the exception has gone to the error hook, and
\* the on-exit hook dispatched for the source is followed by an on-enter hook
\* dispatched for the target.
C29_EnterFailurePaired ==
    \A p \in Tasks : EnterFailed(p) =>
        LET b == table[task[p].chosen_transition].target
        IN  /\ current_state = b
            /\ task[p].handled
            /\ \E n \in {5, 6} : task[p].log = UpTo(p, n, task[p].exc)
            /\ \E k \in 1..Len(task[p].log) : task[p].log[k] = <<"on_enter_hook", b>>

\* C29: when the target's enter behaviour or the on-enter hook dispatch
\* raises, the cursor is the transition's target, the exit steps and the
\* actions have run once and the exception has gone to the error hook; the
\* on-enter hook has been dispatched for the target if it is the dispatch
\* that raised, and has not been dispatched at all if it is the enter
\* behaviour that raised.
C29_EnterFailure ==
    \A p \in Tasks : EnterFailed(p) =>
        /\ current_state = table[task[p].chosen_transition].target
        /\ task[p].handled
        /\ task[p].log = UpTo(p, IF task[p].exc = "on_enter" THEN 5 ELSE 6, task[p].exc)

\* the enter behaviour of B raised in a transition from A
C29_Witness ==
    \E p \in Tasks :
        /\ EnterFailed(p) /\ task[p].exc = "on_enter"
        /\ task[p].pre = "A" /\ current_state = "B"

\* ------------------------------------------------------------ guard claims
Checked == check_result # NotCalled

\* what the condition of the guard does with the state data of the call
Condition == condition(guard.condition, check_args.state_data)

\* the check call raised a GuardEvaluationError of the guard, the state data
\* and the event of the call
RaisedGuardError ==
    /\ check_result.kind = "raise"
    /\ check_result.error[1].class = "GuardEvaluationError"
    /\ check_result.error[1].guard_name = guard.class
    /\ check_result.error[1].state_data = check_args.state_data
    /\ check_result.error[1].event = check_args.event

\* C26: when the condition of a ConditionGuard or AsyncConditionGuard raises,
\* check does not raise that exception itself: it raises a
\* GuardEvaluationError with the guard's name, the state data and the event,
\* whose cause is the exception the condition raised.
C26_ConditionErrorWrapped ==
    (Checked /\ Condition.kind = "raise") =>
        /\ RaisedGuardError
        /\ check_result.error # Condition.error
        /\ check_result.error[1].cause = Condition.error

\* the condition of an AsyncConditionGuard raised KeyError
C26_Witness ==
    /\ Checked /\ guard.class = "AsyncConditionGuard"
    /\ Condition.kind = "raise" /\ Condition.error[1].class = "KeyError"
    /\ check_result.kind = "raise"

\* the first part of the message of the error that check raised
Outcome == check_result.error[1].message[1]

\* C30: ConditionGuard.check returns True when the condition holds; when the
\* condition returns False without raising, it raises the plain
\* 'Condition failed' error, which has no cause; only when the condition
\* raises is the error a 'Condition evaluation error', whose cause is the
\* condition's exception. check never returns False.
C30_MismatchDistinct ==
    (Checked /\ guard.class # "AsyncConditionGuard") =>
        /\ check_result.kind = "return" => check_result.value = "True"
        /\ (Condition.kind = "return" /\ Condition.value \notin Falsy)
              => check_result = Return("True")
        /\ (Condition.kind = "return" /\ Condition.value \in Falsy)
              => /\ RaisedGuardError
                 /\ Outcome = "Condition failed"
                 /\ check_result.error[1].cause = None
        /\ Condition.kind = "raise"
              => /\ RaisedGuardError
                 /\ Outcome = "Condition evaluation error"
                 /\ check_result.error[1].cause = Condition.error

\* ------------------------------------------------------------ timer manager claims
\* this step is the return of a call of op on the manager
ManagerCall(op) == mgr_last'.n # mgr_last.n /\ mgr_last'.op = op

Creates == {"create_timer", "create_async_timer"}

KindOf(op) == IF op = "create_timer" THEN "Timer" ELSE "AsyncTimer"

\* C23: of the create_timer and create_async_timer calls with one id, the one
\* that finds the id free succeeds, and the timer it made is the one the
\* registry holds under the id and get_timer returns; every call that finds
\* the id registered fails with ValueError and leaves the registry as it is.
C23_CreateUnique ==
    [][\A op \in Creates : ManagerCall(op) =>
          LET id == mgr_last'.id
          IN  IF id \in DOMAIN registry
              THEN mgr_last'.result = "ValueError" /\ registry' = registry
              ELSE /\ mgr_last'.result = KindOf(op)
                   /\ DOMAIN registry' = DOMAIN registry \cup {id}
                   /\ registry'[id] = new_timer(KindOf(op))
                   /\ \A x \in DOMAIN registry : registry'[x] = registry[x]]_vars
    /\ [][\A id \in ManagerIds : (ManagerCall("get_timer") /\ mgr_last'.id = id) =>
              mgr_last'.result = (IF id \in DOMAIN registry THEN registry[id].kind ELSE "None")]_vars

\* create_async_timer has failed for an id under which a Timer is registered
C23_Witness ==
    /\ mgr_last.op = "create_async_timer" /\ mgr_last.result = "ValueError"
    /\ mgr_last.id \in DOMAIN registry /\ registry[mgr_last.id].kind = "Timer"

\* C24: remove_timer on a RUNNING timer fails with TimerError and leaves it
\* registered and RUNNING; on a registered timer that is not RUNNING it
\* succeeds and get_timer then finds nothing; on an id that is not registered
\* it fails with ValueError. However remove_timer and schedule_timeout
\* interleave, no timer leaves the registry while it is RUNNING.
C24_RemoveGuarded ==
    [][/\ \A id \in DOMAIN registry :
             id \notin DOMAIN registry' =>
                 /\ registry[id].state # "RUNNING"
                 /\ ManagerCall("remove_timer")
                 /\ mgr_last' = ManagerReturned("remove_timer", id, "ok")
       /\ (ManagerCall("remove_timer") /\ mgr_last'.result # "ok") =>
             /\ registry' = registry
             /\ mgr_last'.result =
                   (IF mgr_last'.id \in DOMAIN registry THEN "TimerError" ELSE "ValueError")
             /\ mgr_last'.id \in DOMAIN registry => registry[mgr_last'.id].state = "RUNNING"]_vars

\* what the holder of the snapshot reads in it
Observed ==
    [id \in DOMAIN snapshot[1] |->
        IF snapshot[1][id].view = "live" /\ id \in DOMAIN registry
        THEN timer_info(id) ELSE snapshot[1][id].info]

\* C25: get_all_timers returns the TimerInfo of every registered timer as it
\* is at the call, and nothing that happens later changes what a snapshot
\* already returned holds: no operation of a timer, no create_timer or
\* remove_timer, and no assignment to a field of one of its entries.
C25_SnapshotIndependent ==
    /\ [][ManagerCall("get_all_timers") =>
             (snapshot' # None /\ Observed' = [id \in DOMAIN registry |-> timer_info(id)])]_vars
    /\ [][(snapshot # None /\ ~ManagerCall("get_all_timers")) =>
             (snapshot' # None /\ Observed' = Observed)]_vars

\* a snapshot shows timer1 IDLE and timer2 registered while timer1 is RUNNING
\* and timer2 has been removed, and an assignment to an entry has been tried
C25_Witness ==
    /\ snapshot # None /\ DOMAIN snapshot[1] = ManagerIds
    /\ Observed["timer1"].state = "IDLE"
    /\ DOMAIN registry = {"timer1"} /\ registry["timer1"].state = "RUNNING"
    /\ mgr_last.op = "setattr"

\* ------------------------------------------------------------ worker claims
AllDone == \A w \in Workers : worker[w].pc = "done"

\* C27: once every worker has finished its rounds of schedule_timeout and
\* cancel_timeout on the shared timer, whose callback does not raise, the
\* timer is CANCELLED, COMPLETED or IDLE, and neither RUNNING nor ERROR.
C27_WorkersEndState ==
    AllDone => timer_state \in {"CANCELLED", "COMPLETED", "IDLE"}

\* threads have finished, one of them after a scheduling conflict, and the
\* expiry of a deadline is still waiting for the section
C27_Witness ==
    /\ AllDone /\ threaded /\ timer_state = "IDLE"
    /\ handlers # {}

====
